---- MODULE Spec2Model ----
(***************************************************************************)
(* Euclidean rhythm generation (Bjorklund's algorithm), src/src/lib.rs.    *)
(*                                                                         *)
(* One call of a public function is one behaviour: Init draws the          *)
(* function and its arguments, the actions are the steps of its body.      *)
(* Vec<bool> is a sequence of BOOLEAN, Vec<Vec<bool>> a sequence of such   *)
(* sequences.  Rust indices are 0-based, TLA+ sequences 1-based; every     *)
(* operator below takes the Rust (0-based) index or count and converts.    *)
(***************************************************************************)
EXTENDS Integers, Sequences, FiniteSets

(* ------------------------------ bounds -------------------------------- *)
MaxSteps == 64          \* steps is drawn from 0..MaxSteps
MaxRotation == 5        \* euclidean's rotation is drawn from 0..MaxRotation, and U8Max
MaxLen == 4             \* rotate_pattern's input has length 0..MaxLen
MaxAmount == 9          \* rotate_pattern's amount is drawn from -MaxAmount..MaxAmount, and the i32 extremes

(* ------------------------- program constants -------------------------- *)
U8Max == 255
I32Max == 2147483647
I32Min == (-2147483647) - 1

(* ------------------------------ helpers ------------------------------- *)
\* vec![b; n]
Vec(b, n) == [i \in 1..n |-> b]

\* pattern.iter().filter(|&&x| x).count()
CountTrue(p) == Cardinality({i \in DOMAIN p : p[i]})

\* Rust's % on signed integers: the remainder has the sign of the dividend
\* (n > 0 here).  Written without negating a, which would overflow at I32Min.
RemTrunc(a, n) ==
    IF a >= 0 THEN a % n
    ELSE IF a % n = 0 THEN 0 ELSE (a % n) - n

\* slice::rotate_left(mid): the element at index mid becomes the first
rotate_left(p, mid) == SubSeq(p, mid + 1, Len(p)) \o SubSeq(p, 1, mid)

\* Vec::drain(from..to): removes the elements at 0-based indices from..to-1
Drain(g, from, to) == SubSeq(g, 1, from) \o SubSeq(g, to + 1, Len(g))

\* into_iter().flatten().collect()
RECURSIVE Flatten(_)
Flatten(g) == IF g = <<>> THEN <<>> ELSE Head(g) \o Flatten(Tail(g))

(* --------------------------- euclidean: checks ------------------------ *)
InvalidInputOffByOne(s, p) == s = 0 \/ p >= s
\* the two panics at the head of euclidean
InvalidInput(s, p) == s = 0 \/ p > s

(* ------------------------- bjorklund: pieces -------------------------- *)
SinglePulseUnset(s) == Vec(FALSE, s)
\* pulses == 1: vec![false; steps] with pattern[0] = true
SinglePulse(s) == [Vec(FALSE, s) EXCEPT ![1] = TRUE]

InitGroupsInclusive(s, p) == Vec(<<TRUE>>, p) \o Vec(<<FALSE>>, s - p + 1)
\* pulses groups [true] followed by (steps - pulses) groups [false]
InitGroups(s, p) == Vec(<<TRUE>>, p) \o Vec(<<FALSE>>, s - p)

NumRight(g, split) == Len(g) - split

LoopBreakOffByOne(g, split) == NumRight(g, split) <= 2
LoopBreakSingleGroup(g, split) == Len(g) <= 1
\* if num_right <= 1 { break; }
LoopBreak(g, split) == NumRight(g, split) <= 1

\* num_left.min(num_right)
NumPairs(g, split) ==
    IF split <= NumRight(g, split) THEN split ELSE NumRight(g, split)

ExtendLoopPrepend(g, split, i, n) ==
    [k \in 1..Len(g) |->
        IF i < k /\ k <= n THEN g[split + k] \o g[k] ELSE g[k]]
\* for i in 0..num_pairs { pattern[i].extend(pattern[split_idx + i].clone()) }
\* run from iteration i (0-based) on.  Iteration j writes index j and reads
\* index split_idx + j >= j, which no earlier iteration has written, so each
\* extended group is its old value followed by the old value of its partner.
ExtendLoop(g, split, i, n) ==
    [k \in 1..Len(g) |->
        IF i < k /\ k <= n THEN g[k] \o g[split + k] ELSE g[k]]

\* one iteration of the pairing loop: extend the left groups, drain the
\* paired right groups
PairGroups(g, split) ==
    Drain(ExtendLoop(g, split, 0, NumPairs(g, split)),
          split, split + NumPairs(g, split))

\* the whole loop, from a given list of groups and split index
RECURSIVE PairLoop(_, _)
PairLoop(g, split) ==
    IF LoopBreak(g, split) THEN g
    ELSE PairLoop(PairGroups(g, split), NumPairs(g, split))

\* bjorklund(steps, pulses) as a function of its arguments
bjorklund(s, p) ==
    IF p = 1 THEN SinglePulse(s)
    ELSE IF p = 0 \/ p = s THEN <<>>
    ELSE Flatten(PairLoop(InitGroups(s, p), p))

ApplyRotationRight(p, rotation, s) ==
    IF rotation % s > 0 THEN rotate_left(p, Len(p) - (rotation % s)) ELSE p
\* let rot = rotation % steps; if rot > 0 { pattern.rotate_left(rot) }
ApplyRotation(p, rotation, s) ==
    IF rotation % s > 0 THEN rotate_left(p, rotation % s) ELSE p

\* euclidean(steps, pulses, rotation) as a function of valid arguments
euclidean(s, p, rotation) ==
    IF p = 0 THEN Vec(FALSE, s)
    ELSE IF p = s THEN Vec(TRUE, s)
    ELSE ApplyRotation(bjorklund(s, p), rotation, s)

(* --------------------------- rotate_pattern --------------------------- *)
NormalizedRotationAbs(rotation, len) ==
    IF rotation >= 0 THEN rotation % len
    ELSE (len - (rotation % len)) % len
NormalizedRotationNeg(rotation, len) ==
    (len - ((RemTrunc(rotation, len) + len) % len)) % len
\* ((rotation % len) + len) % len
NormalizedRotation(rotation, len) == (RemTrunc(rotation, len) + len) % len

\* result = pattern[normalized_rotation..] ++ pattern[..normalized_rotation]
rotate_pattern(p, rotation) ==
    IF p = <<>> THEN <<>>
    ELSE SubSeq(p, NormalizedRotation(rotation, Len(p)) + 1, Len(p))
         \o SubSeq(p, 1, NormalizedRotation(rotation, Len(p)))

(* ------------------------------- state -------------------------------- *)
VARIABLES
    fn,          \* the public function this behaviour calls
    pc,          \* position in its body
    steps,       \* euclidean: steps (u8)
    pulses,      \* euclidean: pulses (u8)
    rotation,    \* euclidean: rotation (u8); rotate_pattern: rotation (i32)
    input,       \* rotate_pattern: the pattern argument
    groups,      \* bjorklund: the local Vec<Vec<bool>> named pattern
    split_idx,   \* bjorklund: split_idx
    pattern,     \* euclidean: the local pattern returned by bjorklund
    result       \* the returned Vec<bool>

vars == <<fn, pc, steps, pulses, rotation, input, groups, split_idx, pattern, result>>

Rotations == (0..MaxRotation) \cup {U8Max}
Amounts == ((-MaxAmount)..MaxAmount) \cup {I32Min, I32Max}
Patterns == UNION {[1..n -> BOOLEAN] : n \in 0..MaxLen}

\* the arguments of one call, euclidean's rotation drawn from R
InitWith(R) ==
    /\ pc = "start"
    /\ groups = <<>>
    /\ split_idx = 0
    /\ pattern = <<>>
    /\ result = <<>>
    /\ \/ /\ fn = "euclidean"
          /\ steps \in 0..MaxSteps
          /\ pulses \in 0..(MaxSteps + 1)
          /\ rotation \in R
          /\ input = <<>>
       \/ /\ fn = "rotate_pattern"
          /\ steps = 0
          /\ pulses = 0
          /\ rotation \in Amounts
          /\ input \in Patterns

Init == InitWith(Rotations)

\* the pairing loop never reads the rotation: its runs are the same for
\* every rotation, so the extremes of u8 stand for all of them
InitLoop == InitWith({0, U8Max})

(* ------------------------- euclidean: actions ------------------------- *)
\* if steps == 0 { panic } / if pulses > steps { panic }
Panic ==
    /\ fn = "euclidean" /\ pc = "start"
    /\ InvalidInput(steps, pulses)
    /\ pc' = "panicked"
    /\ UNCHANGED <<fn, steps, pulses, rotation, input, groups, split_idx, pattern, result>>

\* both checks pass
Validated ==
    /\ fn = "euclidean" /\ pc = "start"
    /\ ~InvalidInput(steps, pulses)
    /\ pc' = "checked"
    /\ UNCHANGED <<fn, steps, pulses, rotation, input, groups, split_idx, pattern, result>>

\* if pulses == 0 { return vec![false; steps] }
AllRests ==
    /\ fn = "euclidean" /\ pc = "checked"
    /\ pulses = 0
    /\ result' = Vec(FALSE, steps)
    /\ pc' = "returned"
    /\ UNCHANGED <<fn, steps, pulses, rotation, input, groups, split_idx, pattern>>

\* if pulses == steps { return vec![true; steps] }
AllPulses ==
    /\ fn = "euclidean" /\ pc = "checked"
    /\ pulses # 0 /\ pulses = steps
    /\ result' = Vec(TRUE, steps)
    /\ pc' = "returned"
    /\ UNCHANGED <<fn, steps, pulses, rotation, input, groups, split_idx, pattern>>

\* bjorklund, pulses == 1: returns to euclidean at once
BjorklundSingle ==
    /\ fn = "euclidean" /\ pc = "checked"
    /\ pulses # 0 /\ pulses # steps
    /\ pulses = 1
    /\ pattern' = SinglePulse(steps)
    /\ pc' = "rotate"
    /\ UNCHANGED <<fn, steps, pulses, rotation, input, groups, split_idx, result>>

\* bjorklund, general case: the singleton groups and split_idx = pulses
\* (its branch pulses == 0 || pulses == steps is never taken from euclidean)
BjorklundInit ==
    /\ fn = "euclidean" /\ pc = "checked"
    /\ pulses # 0 /\ pulses # steps
    /\ pulses # 1
    /\ groups' = InitGroups(steps, pulses)
    /\ split_idx' = pulses
    /\ pc' = "loop"
    /\ UNCHANGED <<fn, steps, pulses, rotation, input, pattern, result>>

\* one iteration of the pairing loop
PairStep ==
    /\ fn = "euclidean" /\ pc = "loop"
    /\ ~LoopBreak(groups, split_idx)
    /\ groups' = PairGroups(groups, split_idx)
    /\ split_idx' = NumPairs(groups, split_idx)
    /\ UNCHANGED <<fn, pc, steps, pulses, rotation, input, pattern, result>>

\* break, flatten the groups, return to euclidean
BjorklundReturn ==
    /\ fn = "euclidean" /\ pc = "loop"
    /\ LoopBreak(groups, split_idx)
    /\ pattern' = Flatten(groups)
    /\ pc' = "rotate"
    /\ UNCHANGED <<fn, steps, pulses, rotation, input, groups, split_idx, result>>

\* apply rotation and return the pattern
Rotate ==
    /\ fn = "euclidean" /\ pc = "rotate"
    /\ result' = ApplyRotation(pattern, rotation, steps)
    /\ pc' = "returned"
    /\ UNCHANGED <<fn, steps, pulses, rotation, input, groups, split_idx, pattern>>

(* ----------------------- rotate_pattern: actions ---------------------- *)
\* if pattern.is_empty() { return Vec::new() }
RotateEmpty ==
    /\ fn = "rotate_pattern" /\ pc = "start"
    /\ input = <<>>
    /\ result' = <<>>
    /\ pc' = "returned"
    /\ UNCHANGED <<fn, steps, pulses, rotation, input, groups, split_idx, pattern>>

\* normalize the rotation, copy the two slices
RotatePattern ==
    /\ fn = "rotate_pattern" /\ pc = "start"
    /\ input # <<>>
    /\ result' = rotate_pattern(input, rotation)
    /\ pc' = "returned"
    /\ UNCHANGED <<fn, steps, pulses, rotation, input, groups, split_idx, pattern>>

Next ==
    \/ Panic
    \/ Validated
    \/ AllRests
    \/ AllPulses
    \/ BjorklundSingle
    \/ BjorklundInit
    \/ PairStep
    \/ BjorklundReturn
    \/ Rotate
    \/ RotateEmpty
    \/ RotatePattern

Spec == Init /\ [][Next]_vars

\* a call that has started runs on: nothing suspends or blocks it
FairSpec == InitLoop /\ [][Next]_vars /\ WF_vars(Next)

(* ============================== claims ================================ *)
Returned == fn = "euclidean" /\ pc = "returned"
RotReturned == fn = "rotate_pattern" /\ pc = "returned"

\* C1: the number of true entries of euclidean(steps, pulses, rotation)
\* equals pulses, for every rotation.
PulseCountMatches == Returned => CountTrue(result) = pulses

PulseCountWitness ==
    /\ Returned /\ pulses >= 2 /\ pulses < steps /\ rotation % steps > 0
    /\ CountTrue(result) = pulses
PulseCountSingleWitness == Returned /\ pulses = 1 /\ steps > 1 /\ CountTrue(result) = 1

\* C2: euclidean(steps, pulses, 0) has length exactly steps, the cases
\* pulses = 0, pulses = 1 and pulses = steps included.
LengthMatchesSteps == (Returned /\ rotation = 0) => Len(result) = steps

LengthWitness ==
    /\ Returned /\ rotation = 0 /\ pulses >= 2 /\ pulses < steps
    /\ Len(result) = steps

\* C3: euclidean panics if and only if steps == 0 or pulses > steps, whatever
\* the rotation; after the panic nothing has been computed (no groups, no
\* pattern, no result) and nothing more runs; every other call ends with a
\* returned pattern.
PanicIffInvalid ==
    fn = "euclidean" =>
        /\ pc = "panicked" =>
              /\ steps = 0 \/ pulses > steps
              /\ groups = <<>> /\ pattern = <<>> /\ result = <<>>
              /\ ~ENABLED Next
        /\ pc \in {"checked", "loop", "rotate", "returned"} =>
              ~(steps = 0 \/ pulses > steps)
        /\ ~ENABLED Next =>
              /\ pc \in {"panicked", "returned"}
              /\ pc = "returned" => Len(result) = steps

PanicWitness == fn = "euclidean" /\ pc = "panicked" /\ steps > 0 /\ pulses > steps /\ rotation > 0
PanicZeroWitness == fn = "euclidean" /\ pc = "panicked" /\ steps = 0 /\ pulses = 0

\* cyclic distance from the pulse at 0-based index i to the next pulse
NextPulseDistance(p, i) ==
    CHOOSE d \in 1..Len(p) :
        /\ p[((i + d) % Len(p)) + 1]
        /\ \A e \in 1..(d - 1) : ~p[((i + e) % Len(p)) + 1]

\* C4: maximal evenness: with pulses >= 1, every cyclic distance between
\* consecutive pulses of the returned pattern is floor(steps/pulses) or
\* ceil(steps/pulses).
MaximallyEven ==
    (Returned /\ pulses >= 1) =>
        \A i \in 0..(steps - 1) :
            result[i + 1] =>
                NextPulseDistance(result, i) \in
                    {steps \div pulses, (steps + pulses - 1) \div pulses}

MaximallyEvenWitness ==
    /\ Returned /\ pulses >= 2 /\ pulses < steps /\ steps % pulses # 0
    /\ rotation % steps > 0
    /\ \E i, j \in 0..(steps - 1) :
          /\ result[i + 1] /\ result[j + 1]
          /\ NextPulseDistance(result, i) = steps \div pulses
          /\ NextPulseDistance(result, j) = (steps \div pulses) + 1

T == TRUE
F == FALSE

\* C5: with rotation 0 the documented reference rhythms are produced
\* exactly: E(3,8), E(5,8), E(5,12) and E(7,16).
ReferenceRhythms ==
    (Returned /\ rotation = 0) =>
        /\ (steps = 8 /\ pulses = 3) => result = <<T,F,F,T,F,F,T,F>>
        /\ (steps = 8 /\ pulses = 5) => result = <<T,F,T,T,F,T,T,F>>
        /\ (steps = 12 /\ pulses = 5) => result = <<T,F,F,T,F,T,F,F,T,F,T,F>>
        /\ (steps = 16 /\ pulses = 7) => result = <<T,F,F,T,F,T,F,T,F,F,T,F,T,F,T,F>>

ReferenceRhythmsWitness ==
    /\ Returned /\ rotation = 0 /\ steps = 16 /\ pulses = 7
    /\ result = <<T,F,F,T,F,T,F,T,F,F,T,F,T,F,T,F>>

\* C6: euclidean(steps, pulses, r) is euclidean(steps, pulses, 0) shifted
\* left circularly by r mod steps, and so equals
\* euclidean(steps, pulses, r mod steps); also for r >= steps and for the
\* all-rest and all-pulse patterns.
RotationIsLeftShift ==
    Returned =>
        LET unrotated == euclidean(steps, pulses, 0)
        IN /\ Len(result) = steps
           /\ \A i \in 0..(steps - 1) :
                 result[i + 1] = unrotated[((i + rotation) % steps) + 1]
           /\ result = euclidean(steps, pulses, rotation % steps)

RotationWitness ==
    /\ Returned /\ pulses >= 2 /\ pulses < steps
    /\ rotation >= steps /\ rotation % steps > 0
    /\ result # euclidean(steps, pulses, 0)
RotationShortCircuitWitness ==
    Returned /\ pulses = steps /\ rotation >= steps /\ rotation % steps > 0

\* C7: rotate_pattern never fails; for a pattern of length n >= 1 and any
\* amount a the normalized amount k = ((a mod n) + n) mod n lies in 0..n-1
\* and the result r has length n with r[i] = p[(i + k) mod n], so a negative
\* amount rotates right; the empty pattern gives the empty pattern.
RotatePatternShifts ==
    fn = "rotate_pattern" =>
        /\ ~ENABLED Next => pc = "returned"
        /\ RotReturned =>
              /\ Len(result) = Len(input)
              /\ input # <<>> =>
                    LET n == Len(input)
                        k == ((rotation % n) + n) % n
                    IN /\ NormalizedRotation(rotation, n) = k
                       /\ k \in 0..(n - 1)
                       /\ \A i \in 0..(n - 1) :
                             result[i + 1] = input[((i + k) % n) + 1]
                       /\ (rotation < 0 /\ rotation > I32Min) =>
                             \A i \in 0..(n - 1) :
                                 result[((i + (-rotation)) % n) + 1] = input[i + 1]

RotatePatternWitness ==
    /\ RotReturned /\ rotation < 0 /\ Len(input) >= 3
    /\ rotation % Len(input) # 0
    /\ result # input
RotatePatternExtremeWitness ==
    /\ RotReturned /\ rotation = I32Min /\ Len(input) = 3 /\ result # input
RotatePatternEmptyWitness == RotReturned /\ input = <<>> /\ rotation # 0 /\ result = <<>>

\* C8: rotation round trip: rotate_pattern(rotate_pattern(p, k), -k) = p for
\* every pattern p, the empty one included, and every k whose negation is an
\* i32.
RotationRoundTrip ==
    (RotReturned /\ rotation # I32Min) =>
        rotate_pattern(result, -rotation) = input

RotationRoundTripWitness ==
    /\ RotReturned /\ rotation # I32Min /\ rotation # 0
    /\ Len(input) >= 3 /\ result # input
    /\ rotate_pattern(result, -rotation) = input

\* C9 as stated: at every step of the pairing loop the concatenation of the
\* groups equals the pattern bjorklund finally returns.
GroupsConcatIsFinal ==
    (fn = "euclidean" /\ pc = "loop") =>
        Flatten(groups) = bjorklund(steps, pulses)

\* C9 amended: at every step of the pairing loop the concatenation of the
\* groups is a rearrangement of the final pattern (length steps, pulses true
\* entries, as the final pattern has); it is the final pattern once the loop
\* has stopped.
GroupsConcatRearrangesFinal ==
    fn = "euclidean" =>
        /\ pc = "loop" =>
              /\ Len(Flatten(groups)) = steps
              /\ CountTrue(Flatten(groups)) = pulses
              /\ Len(bjorklund(steps, pulses)) = Len(Flatten(groups))
              /\ CountTrue(bjorklund(steps, pulses)) = CountTrue(Flatten(groups))
              /\ LoopBreak(groups, split_idx) => Flatten(groups) = bjorklund(steps, pulses)
        /\ (pc = "rotate" /\ pulses >= 2) => pattern = Flatten(groups)

GroupsConcatWitness ==
    /\ fn = "euclidean" /\ pc = "loop"
    /\ groups # InitGroups(steps, pulses)
    /\ ~LoopBreak(groups, split_idx)
    /\ Flatten(groups) # bjorklund(steps, pulses)

\* C10: the pairing loop terminates: from every state of the loop a state
\* with num_right <= 1 is reached, where the loop stops and the groups are
\* flattened into the pattern.
PairingLoopTerminates ==
    (fn = "euclidean" /\ pc = "loop") ~>
        (pc = "rotate" /\ NumRight(groups, split_idx) <= 1 /\ pattern = Flatten(groups))

PairingLoopWitness ==
    /\ fn = "euclidean" /\ pc = "rotate" /\ pulses >= 2
    /\ groups # InitGroups(steps, pulses)
    /\ Len(groups) >= 3
    /\ NumRight(groups, split_idx) <= 1

\* each iteration removes at least one group and keeps the split inside
PairingLoopProgress ==
    [][(pc = "loop" /\ pc' = "loop") =>
          /\ Len(groups') < Len(groups)
          /\ split_idx' \in 1..Len(groups')]_vars

TypeOK ==
    /\ fn \in {"euclidean", "rotate_pattern"}
    /\ pc \in {"start", "checked", "loop", "rotate", "returned", "panicked"}
    /\ steps \in 0..U8Max /\ pulses \in 0..U8Max
    /\ rotation \in I32Min..I32Max
    /\ split_idx \in 0..U8Max
====
